---- MODULE Spec2Model ----
(***************************************************************************)
(* A model of the rustick indicator library: the candle/parameter          *)
(* validator, the numeric kernels and the calculate operation of the nine  *)
(* indicators (ADX, ADXR, APO, AROON, ATR, AVGPRICE, BBANDS, AD, ADOSC).   *)
(*                                                                         *)
(* f64 values are modelled as binary floating-point numbers with a         *)
(* reduced significand (MantBits bits instead of 53) and a smallest        *)
(* quantum of 2^-FracBits; every arithmetic operation rounds its exact     *)
(* result to nearest, ties to even, as IEEE-754 does.  NaN and the two     *)
(* infinities are kept as values of their own.                             *)
(* Arrays are sequences; the code's index i is position i + 1.             *)
(***************************************************************************)
EXTENDS Integers, Sequences, FiniteSets, TLC

(* ------------------------------ bounds --------------------------------- *)
MaxLen == 5
MaxPeriod == 3

(* ------------------------------ f64 ------------------------------------ *)
FracBits == 6
MantBits == 5

RECURSIVE Pow2(_)
Pow2(k) == IF k <= 0 THEN 1 ELSE 2 * Pow2(k - 1)

RECURSIVE BitLen(_)
BitLen(x) == IF x <= 0 THEN 0 ELSE 1 + BitLen(x \div 2)

Abs(n) == IF n < 0 THEN -n ELSE n

\* The exact rational n/d (d > 0), in units of 2^-FracBits, rounded to
\* MantBits significant bits, to nearest, ties to even.
\* how many low bits a significand of bl bits has to drop
Excess(bl) == IF bl > MantBits THEN bl - MantBits ELSE 0
\* the quotient q with remainder r of a division by D, to nearest, ties to even
RoundTies(q, r, D) ==
    IF 2 * r > D \/ (2 * r = D /\ q % 2 = 1) THEN q + 1 ELSE q
\* a/d >= 0 rounded to a multiple of P
RoundMag(a, d, P) == RoundTies(a \div (d * P), a % (d * P), d * P) * P
RoundQ(n, d) ==
    (IF n < 0 THEN -1 ELSE 1)
        * RoundMag(Abs(n), d, Pow2(Excess(BitLen(Abs(n) \div d))))

NaN == <<"nan", 0>>
Fin(v) == <<"fin", v>>
is_nan(x) == x[1] = "nan"
is_infinite(x) == x[1] = "inf"
is_finite(x) == x[1] = "fin"
SignOf(x) == IF is_infinite(x) THEN x[2] ELSE IF x[2] < 0 THEN -1 ELSE 1
InfOf(s) == IF s < 0 THEN <<"inf", -1>> ELSE <<"inf", 1>>

FromInt(n) == Fin(RoundQ(n * Pow2(FracBits), 1))
Zero == Fin(0)

FAdd(a, b) ==
    IF is_nan(a) \/ is_nan(b) THEN NaN
    ELSE IF is_infinite(a)
         THEN IF is_infinite(b) /\ b[2] # a[2] THEN NaN ELSE a
    ELSE IF is_infinite(b) THEN b
    ELSE Fin(RoundQ(a[2] + b[2], 1))

FSub(a, b) == FAdd(a, IF is_nan(b) THEN NaN ELSE <<b[1], -b[2]>>)

FMul(a, b) ==
    IF is_nan(a) \/ is_nan(b) THEN NaN
    ELSE IF is_infinite(a) \/ is_infinite(b)
         THEN IF (is_finite(a) /\ a[2] = 0) \/ (is_finite(b) /\ b[2] = 0)
              THEN NaN
              ELSE InfOf(SignOf(a) * SignOf(b))
    ELSE Fin(RoundQ(a[2] * b[2], Pow2(FracBits)))

FDiv(a, b) ==
    IF is_nan(a) \/ is_nan(b) THEN NaN
    ELSE IF is_infinite(a)
         THEN IF is_infinite(b) THEN NaN ELSE InfOf(SignOf(a) * SignOf(b))
    ELSE IF is_infinite(b) THEN Zero
    ELSE IF b[2] = 0
         THEN IF a[2] = 0 THEN NaN ELSE InfOf(SignOf(a))
    ELSE Fin(RoundQ(SignOf(b) * a[2] * Pow2(FracBits), Abs(b[2])))

FAbs(x) == IF is_nan(x) THEN NaN ELSE <<x[1], Abs(x[2])>>

\* comparisons: every comparison with NaN is false
FLt(a, b) ==
    /\ ~is_nan(a) /\ ~is_nan(b)
    /\ IF is_infinite(a) THEN a[2] < 0 /\ b # a
       ELSE IF is_infinite(b) THEN b[2] > 0
       ELSE a[2] < b[2]
FGt(a, b) == FLt(b, a)
FEq(a, b) == ~is_nan(a) /\ ~is_nan(b) /\ a = b

\* f64::max: a NaN operand is ignored
FMax(a, b) ==
    IF is_nan(a) THEN b ELSE IF is_nan(b) THEN a
    ELSE IF FLt(a, b) THEN b ELSE a

\* floor of the square root of a natural number
RECURSIVE ISqrtBits(_, _, _)
ISqrtBits(y, s, b) ==
    IF b = 0 THEN s
    ELSE IF (s + b) * (s + b) <= y THEN ISqrtBits(y, s + b, b \div 2)
    ELSE ISqrtBits(y, s, b \div 2)
ISqrt(y) == ISqrtBits(y, 0, Pow2(BitLen(y) \div 2))

\* f64::sqrt, correctly rounded: NaN below zero
\* the root of y, whose floor is s, rounded to a multiple of P: the midpoint
\* between q*P and (q+1)*P is (2q+1)*P/2
SqrtRound(y, s, P) ==
    IF 4 * y > (2 * (s \div P) + 1) * (2 * (s \div P) + 1) * P * P
    THEN ((s \div P) + 1) * P
    ELSE (s \div P) * P
FSqrt(x) ==
    IF is_nan(x) THEN NaN
    ELSE IF is_infinite(x) THEN (IF x[2] > 0 THEN x ELSE NaN)
    ELSE IF x[2] < 0 THEN NaN
    ELSE Fin(SqrtRound(x[2] * Pow2(FracBits), ISqrt(x[2] * Pow2(FracBits)),
                       Pow2(Excess(BitLen(ISqrt(x[2] * Pow2(FracBits)))))))

(* ------------------------------ arrays --------------------------------- *)
At(a, i) == a[i + 1]
from_elem(n, x) == [j \in 1 .. n |-> x]
Slice(a, lo, hi) == [j \in 1 .. (hi - lo) |-> a[lo + j]]
Put(a, i, x) == [a EXCEPT ![i + 1] = x]

\* ndarray sum(): a left-to-right fold from 0.0 (arrays shorter than 8)
RECURSIVE SumTo(_, _)
SumTo(a, n) == IF n = 0 THEN Zero ELSE FAdd(SumTo(a, n - 1), a[n])
\* ndarray mean(): None on an empty array, else sum / len
AMean(a) == FDiv(SumTo(a, Len(a)), FromInt(Len(a)))

(* ------------------------------ results -------------------------------- *)
Ok(v) == [kind |-> "Ok", val |-> v]
Err(k, msg) == [kind |-> k, val |-> msg]
InvalidInput(msg) == Err("InvalidInput", msg)
InvalidParameters(msg) == Err("InvalidParameters", msg)
CalculationError(msg) == Err("CalculationError", msg)
\* a Rust panic (index or slice out of range, unwrap of None, usize underflow)
Panic(msg) == Err("Panic", msg)
IsOk(r) == r.kind = "Ok"
SingleSeries(s) == [shape |-> "SingleSeries", series |-> s]
MultiSeries(m) == [shape |-> "MultiSeries", series |-> m]

\* format!("{}", n) for the integers the model meets: decimal digits
RECURSIVE NatStr(_)
NatStr(n) ==
    IF n < 10
    THEN <<(<<"0", "1", "2", "3", "4", "5", "6", "7", "8", "9">>)[n + 1]>>
    ELSE NatStr(n \div 10) \o NatStr(n % 10)
IntStr(n) == IF n < 0 THEN <<"-">> \o NatStr(-n) ELSE NatStr(n)

(* ------------------------------ data.rs -------------------------------- *)
None == [some |-> FALSE, arr |-> <<>>]
Some(a) == [some |-> TRUE, arr |-> a]
to_str(field) == field

get_by_bar_field(d, field) ==
    CASE field = "OPEN" -> d.open
      [] field = "HIGH" -> d.high
      [] field = "LOW" -> d.low
      [] field = "CLOSE" -> d.close
      [] field = "VOLUME" -> d.volume

(* ------------------------------ raw parameters ------------------------- *)
\* a serde_json value under one key of the raw parameter map
Absent == <<"absent", 0>>
JInt(n) == <<"int", n>>
JStr == <<"string", 0>>
JFloat(x) == <<"float", x>>
ParamKeys == {"period", "fast_period", "slow_period", "short_period",
              "long_period", "std_dev_multiplier"}
NoParams == [k \in ParamKeys |-> Absent]

\* a variant whose absent key decodes to 0 instead of the declared default
DecodeUsizeNoDefault(raw, dflt) ==
    IF raw = Absent THEN Ok(0)
    ELSE IF raw[1] = "int" /\ raw[2] >= 0 THEN Ok(raw[2])
    ELSE IF raw[1] = "int"
         THEN Err("Decode", <<"invalid value: integer ">> \o IntStr(raw[2])
                            \o <<", expected usize">>)
    ELSE Err("Decode", <<"invalid type: ", raw[1], ", expected usize">>)

\* serde: a usize field with #[serde(default = ...)]
DecodeUsize(raw, dflt) ==
    IF raw = Absent THEN Ok(dflt)
    ELSE IF raw[1] = "int" /\ raw[2] >= 0 THEN Ok(raw[2])
    ELSE IF raw[1] = "int"
         THEN Err("Decode", <<"invalid value: integer ">> \o IntStr(raw[2])
                            \o <<", expected usize">>)
    ELSE Err("Decode", <<"invalid type: ", raw[1], ", expected usize">>)

\* serde: an f64 field with a default; any JSON number decodes
DecodeF64(raw, dflt) ==
    IF raw = Absent THEN Ok(dflt)
    ELSE IF raw[1] = "int" THEN Ok(FromInt(raw[2]))
    ELSE IF raw[1] = "float" THEN Ok(raw[2])
    ELSE Err("Decode", <<"invalid type: ", raw[1], ", expected f64">>)

\* IParameter::to_value: the typed schema serialised again; a usize becomes
\* a JSON integer, an f64 a JSON float
JUInt(n) == <<"uint", n>>
\* a variant that skips the fields that hold the period default of ADX
to_value_usize_skip_default(typed) ==
    [k \in {n \in DOMAIN typed : typed[n] # 14} |-> JUInt(typed[k])]
to_value_usize(typed) == [k \in DOMAIN typed |-> JUInt(typed[k])]
JGet(value, name) == IF name \in DOMAIN value THEN value[name] ELSE <<"missing", 0>>
\* Value::as_i64: Some for integers only
as_i64_is_some(v) == v[1] \in {"int", "uint"}

(* ------------------------------ validator.rs --------------------------- *)
is_field_missing(d, field) == ~get_by_bar_field(d, field).some

RECURSIVE PresenceFrom(_, _, _)
PresenceFrom(required_fields, d, j) ==
    IF j > Len(required_fields) THEN Ok(TRUE)
    ELSE IF is_field_missing(d, required_fields[j])
         THEN InvalidInput(<<"Field '", to_str(required_fields[j]),
                             "' is required but missing.">>)
    ELSE PresenceFrom(required_fields, d, j + 1)
validate_required_fields_presence(required_fields, d) ==
    PresenceFrom(required_fields, d, 1)

\* a variant that compares the lengths of all the fields present
validate_same_length_all(required_fields, d) ==
    LET present == SelectSeq(<<"OPEN", "HIGH", "LOW", "CLOSE", "VOLUME">>,
                             LAMBDA f : get_by_bar_field(d, f).some)
        lengths == [j \in 1 .. Len(present) |->
                        Len(get_by_bar_field(d, present[j]).arr)]
    IN  IF Len(lengths) = 0 THEN InvalidInput(<<"Empty input.">>)
        ELSE IF \E j \in 2 .. Len(lengths) : lengths[j] # lengths[1]
             THEN InvalidInput(
                 <<"Input data series of the bars must have the same length.">>)
        ELSE Ok(TRUE)

validate_same_length(required_fields, d) ==
    LET present == SelectSeq(required_fields,
                             LAMBDA f : get_by_bar_field(d, f).some)
        lengths == [j \in 1 .. Len(present) |->
                        Len(get_by_bar_field(d, present[j]).arr)]
    IN  IF Len(lengths) = 0 THEN InvalidInput(<<"Empty input.">>)
        ELSE IF \E j \in 2 .. Len(lengths) : lengths[j] # lengths[1]
             THEN InvalidInput(
                 <<"Input data series of the bars must have the same length.">>)
        ELSE Ok(TRUE)

validate_candle(required_fields, d) ==
    LET p == validate_required_fields_presence(required_fields, d)
    IN  IF ~IsOk(p) THEN p ELSE validate_same_length(required_fields, d)

validate_required_param(value, param_name) ==
    IF JGet(value, param_name) = <<"missing", 0>>
    THEN InvalidParameters(<<"Parameter '", param_name, "' does not exist">>)
    ELSE Ok(TRUE)

\* a variant that lets zero through
validate_positive_integer_param_zero(value, param_name) ==
    LET v == JGet(value, param_name)
    IN  IF as_i64_is_some(v) /\ v[2] >= 0 THEN Ok(TRUE)
        ELSE InvalidParameters(<<"Parameter '", param_name,
                                 "' must be a positive integer">>)

validate_positive_integer_param(value, param_name) ==
    LET v == JGet(value, param_name)
    IN  IF as_i64_is_some(v) /\ v[2] > 0 THEN Ok(TRUE)
        ELSE InvalidParameters(<<"Parameter '", param_name,
                                 "' must be a positive integer">>)

\* a variant that lets equal periods through
validate_correct_period_equal(value, left, right) ==
    LET l == JGet(value, left)
        r == JGet(value, right)
    IN  IF as_i64_is_some(l)
        THEN IF as_i64_is_some(r)
             THEN IF l[2] <= r[2] THEN Ok(TRUE)
                  ELSE InvalidParameters(<<"Parameter '", left,
                                           "' must be less than '", right, "'">>)
             ELSE InvalidParameters(<<"Parameter '", right,
                                      "' must be a positive integer">>)
        ELSE InvalidParameters(<<"Parameter '", left,
                                 "' must be a positive integer">>)

validate_correct_period(value, left, right) ==
    LET l == JGet(value, left)
        r == JGet(value, right)
    IN  IF as_i64_is_some(l)
        THEN IF as_i64_is_some(r)
             THEN IF l[2] < r[2] THEN Ok(TRUE)
                  ELSE InvalidParameters(<<"Parameter '", left,
                                           "' must be less than '", right, "'">>)
             ELSE InvalidParameters(<<"Parameter '", right,
                                      "' must be a positive integer">>)
        ELSE InvalidParameters(<<"Parameter '", left,
                                 "' must be a positive integer">>)

validate_less_than_data(value, param_name, data_len) ==
    LET v == JGet(value, param_name)
    IN  IF as_i64_is_some(v)
        THEN IF v[2] < data_len THEN Ok(TRUE)
             ELSE InvalidParameters(<<"Parameter '", param_name,
                                      "' must be less than ">>
                                    \o IntStr(data_len) \o <<".">>)
        ELSE InvalidParameters(<<"Parameter '", param_name,
                                 "' must be a number.">>)

\* utils::validate_parameter_within_data_length, the Custom rule of ADX,
\* ADXR, APO, AROON and ATR: the value may not exceed the field's length
validate_parameter_within_data_length(value, d, param_name, field) ==
    LET v == JGet(value, param_name)
        f == get_by_bar_field(d, field)
    IN  IF ~as_i64_is_some(v)
        THEN InvalidParameters(<<"Parameter '", param_name,
                                 "' must be a positive integer">>)
        ELSE IF ~f.some
        THEN InvalidInput(<<"Field '", to_str(field),
                            "' is required but missing.">>)
        ELSE IF v[2] > Len(f.arr)
        THEN InvalidParameters(<<"Wrong parameter length. '", param_name,
                                 "' > data length. (">> \o IntStr(v[2])
                               \o <<" > ">> \o IntStr(Len(f.arr)) \o <<")">>)
        ELSE Ok(TRUE)

\* utils::validate_period_less_than_data, the Custom rule of ADOSC
validate_period_less_than_data(value, d, param_name, field) ==
    validate_parameter_within_data_length(value, d, param_name, field)

\* ParamRule::PositiveNumber, the rule BBANDS declares for its multiplier
validate_positive_number_param(value, param_name) ==
    LET v == JGet(value, param_name)
    IN  IF (v[1] = "uint" /\ v[2] > 0) \/ (v[1] = "float" /\ FGt(v[2], Zero))
        THEN Ok(TRUE)
        ELSE InvalidParameters(<<"Parameter '", param_name,
                                 "' must be a positive number">>)

\* the ParamRule variants, as data
Required(name) == [rule |-> "Required", a |-> name, b |-> "", n |-> 0]
PositiveInteger(name) == [rule |-> "PositiveInteger", a |-> name, b |-> "", n |-> 0]
PositiveNumber(name) == [rule |-> "PositiveNumber", a |-> name, b |-> "", n |-> 0]
CorrectPeriod(left, right) == [rule |-> "CorrectPeriod", a |-> left, b |-> right, n |-> 0]
LessThanData(param, data_len) == [rule |-> "LessThanData", a |-> param, b |-> "", n |-> data_len]
CustomWithin(param, field) == [rule |-> "CustomWithin", a |-> param, b |-> field, n |-> 0]
CustomLess(param, field) == [rule |-> "CustomLess", a |-> param, b |-> field, n |-> 0]

\* a variant that lets the Custom rules pass
ApplyRuleNoCustom(rule, value, d) ==
    CASE rule.rule = "Required" -> validate_required_param(value, rule.a)
      [] rule.rule = "PositiveInteger" -> validate_positive_integer_param(value, rule.a)
      [] rule.rule = "PositiveNumber" -> validate_positive_number_param(value, rule.a)
      [] rule.rule = "CorrectPeriod" -> validate_correct_period(value, rule.a, rule.b)
      [] rule.rule = "LessThanData" -> validate_less_than_data(value, rule.a, rule.n)
      [] OTHER -> Ok(TRUE)

ApplyRule(rule, value, d) ==
    CASE rule.rule = "Required" -> validate_required_param(value, rule.a)
      [] rule.rule = "PositiveInteger" -> validate_positive_integer_param(value, rule.a)
      [] rule.rule = "PositiveNumber" -> validate_positive_number_param(value, rule.a)
      [] rule.rule = "CorrectPeriod" -> validate_correct_period(value, rule.a, rule.b)
      [] rule.rule = "LessThanData" -> validate_less_than_data(value, rule.a, rule.n)
      [] rule.rule = "CustomWithin" ->
            validate_parameter_within_data_length(value, d, rule.a, rule.b)
      [] rule.rule = "CustomLess" ->
            validate_period_less_than_data(value, d, rule.a, rule.b)

\* a variant that runs every rule and reports the last failure
RECURSIVE ParamsFromLast(_, _, _, _)
ParamsFromLast(param_rules, value, d, j) ==
    IF j > Len(param_rules) THEN Ok(TRUE)
    ELSE LET rest == ParamsFromLast(param_rules, value, d, j + 1)
         IN  IF ~IsOk(rest) THEN rest ELSE ApplyRule(param_rules[j], value, d)

RECURSIVE ParamsFrom(_, _, _, _)
ParamsFrom(param_rules, value, d, j) ==
    IF j > Len(param_rules) THEN Ok(TRUE)
    ELSE LET r == ApplyRule(param_rules[j], value, d)
         IN  IF ~IsOk(r) THEN r ELSE ParamsFrom(param_rules, value, d, j + 1)
validate_params(param_rules, value, d) == ParamsFrom(param_rules, value, d, 1)

Validator(required_fields, param_rules) ==
    [required_fields |-> required_fields, param_rules |-> param_rules]

validate_data(validator, d) == validate_candle(validator.required_fields, d)

validate(validator, d, value) ==
    LET c == validate_candle(validator.required_fields, d)
    IN  IF ~IsOk(c) THEN c ELSE validate_params(validator.param_rules, value, d)

\* a variant that examines the candle series before the decode result
GateCandleFirst(from_value, validator, d, value) ==
    LET c == validate_candle(validator.required_fields, d)
    IN  IF ~IsOk(c) THEN c
        ELSE IF ~IsOk(from_value) THEN from_value
        ELSE LET v == validate_params(validator.param_rules, value, d)
             IN  IF ~IsOk(v) THEN v ELSE from_value

\* the first two statements of every calculate: decode the raw parameters
\* into the typed schema, then run the validator on the candle series and
\* on the schema serialised again; Ok(typed parameters) or the error
Gate(from_value, validator, d, value) ==
    IF ~IsOk(from_value) THEN from_value
    ELSE LET v == validate(validator, d, value)
         IN  IF ~IsOk(v) THEN v ELSE from_value

(* ------------------------------ utils.rs ------------------------------- *)
RECURSIVE CumFrom(_, _, _, _)
CumFrom(input, cumsum, sum, j) ==
    IF j > Len(input) THEN cumsum
    ELSE LET s2 == FAdd(sum, input[j])
         IN  CumFrom(input, [cumsum EXCEPT ![j] = s2], s2, j + 1)
cumulative_sum(input) == CumFrom(input, from_elem(Len(input), Zero), Zero, 1)

\* a variant without the guard of the zero range
MoneyFlowVolumeUnguarded(h, l, c, v) ==
    FMul(FDiv(FSub(FSub(c, l), FSub(h, c)), FSub(h, l)), v)

\* the money flow volume of one bar: the multiplier is 0 on a zero range
MoneyFlowVolume(h, l, c, v) ==
    LET high_low_range == FSub(h, l)
        mfm_numerator == FSub(FSub(c, l), FSub(h, c))
        mfm == IF FEq(high_low_range, Zero) THEN Zero
               ELSE FDiv(mfm_numerator, high_low_range)
    IN  FMul(mfm, v)

calculate_adl(high, low, close, volume) ==
    LET mfv == [j \in 1 .. Len(high) |->
                    MoneyFlowVolume(high[j], low[j], close[j], volume[j])]
    IN  Ok(cumulative_sum(mfv))

RECURSIVE EmaLoop(_, _, _, _)
EmaLoop(ema, data, alpha, i) ==
    IF i >= Len(data) THEN ema
    ELSE EmaLoop(Put(ema, i, FAdd(FMul(alpha, At(data, i)),
                                  FMul(FSub(FromInt(1), alpha), At(ema, i - 1)))),
                 data, alpha, i + 1)

calculate_ema(data, period) ==
    IF period = 0 \/ period > Len(data)
    THEN InvalidParameters(<<"Invalid period for EMA calculation">>)
    ELSE LET length == Len(data)
             alpha == FDiv(FromInt(2), FAdd(FromInt(period), FromInt(1)))
             seed == Put(from_elem(length, Zero), period - 1, AMean(Slice(data, 0, period)))
         IN  Ok(EmaLoop(seed, data, alpha, period))

\* a variant that ignores the gap to the previous close
TrueRangeAtNoGap(high, low, close, i) == FSub(At(high, i), At(low, i))

TrueRangeAt(high, low, close, i) ==
    IF i = 0 THEN FSub(At(high, 0), At(low, 0))
    ELSE LET hl == FSub(At(high, i), At(low, i))
             hc == FAbs(FSub(At(high, i), At(close, i - 1)))
             lc == FAbs(FSub(At(low, i), At(close, i - 1)))
         IN  FMax(FMax(hl, hc), lc)

calculate_true_range(high, low, close) ==
    Ok([j \in 1 .. Len(high) |-> TrueRangeAt(high, low, close, j - 1)])

\* a variant that keeps every positive move, whatever the opposite move is
SignedMovePositive(target, comparative) ==
    IF FGt(target, Zero) THEN target ELSE Zero

SignedMove(target, comparative) ==
    IF FGt(target, comparative) /\ FGt(target, Zero) THEN target ELSE Zero

get_signed_directional_movement(target, comparative) ==
    [j \in 1 .. Len(target) |-> SignedMove(target[j], comparative[j])]

calculate_directional_movements(high, low) ==
    IF Len(high) = 0 \/ Len(low) = 0
    THEN Panic(<<"attempt to subtract with overflow">>)
    ELSE LET n == Len(high) - 1
             up_move == [j \in 1 .. n |-> FSub(high[j + 1], high[j])]
             down_move == [j \in 1 .. n |-> FSub(low[j], low[j + 1])]
             plus_dm == get_signed_directional_movement(up_move, down_move)
             minus_dm == get_signed_directional_movement(down_move, up_move)
             plus_dm_full == [j \in 1 .. Len(high) |->
                                IF j = 1 THEN Zero ELSE plus_dm[j - 1]]
             minus_dm_full == [j \in 1 .. Len(low) |->
                                IF j = 1 THEN Zero ELSE minus_dm[j - 1]]
         IN  Ok(<<plus_dm_full, minus_dm_full>>)

RECURSIVE WilderLoop(_, _, _, _)
WilderLoop(smoothed, data, period, i) ==
    IF i >= Len(data) THEN smoothed
    ELSE WilderLoop(
            Put(smoothed, i,
                FAdd(At(smoothed, i - 1),
                     FDiv(FSub(At(data, i), At(smoothed, i - 1)), FromInt(period)))),
            data, period, i + 1)

wilder_smoothing(data, period) ==
    LET length == Len(data)
    IN  IF length < period
        THEN InvalidInput(
            <<"Data length must be at least equal to the period for smoothing">>)
        ELSE IF period = 0
        THEN Panic(<<"called Option::unwrap() on a None value">>)
        ELSE LET initial_average == AMean(Slice(data, 0, period))
                 seed == Put(from_elem(length, Zero), period - 1, initial_average)
             IN  Ok(WilderLoop(seed, data, period, period))

(* ------------------------------ adx.rs --------------------------------- *)
adx_default_period == 14

adx_create_validator ==
    Validator(<<"HIGH", "LOW", "CLOSE">>,
              <<Required("period"), PositiveInteger("period"),
                CustomWithin("period", "HIGH")>>)

\* +DI and -DI of one bar, from the smoothed movement and true range
DirectionalIndex(smoothed_dm, smoothed_tr) ==
    FMul(FDiv(smoothed_dm, smoothed_tr), FromInt(100))

\* DX of one bar; a NaN or infinite quotient is replaced by 0
DXClean(x) == IF is_nan(x) \/ is_infinite(x) THEN Zero ELSE x
\* a variant that keeps the sign of the difference of +DI and -DI
DXValueSigned(plus_di, minus_di) ==
    DXClean(FMul(FDiv(FSub(plus_di, minus_di), FAdd(plus_di, minus_di)),
                 FromInt(100)))
DXValue(plus_di, minus_di) ==
    DXClean(FMul(FDiv(FAbs(FSub(plus_di, minus_di)), FAdd(plus_di, minus_di)),
                 FromInt(100)))

\* steps 4-6 of ADX::calculate: DI, DX and the smoothing of DX
ADXOfSmoothed(smoothed_tr, smoothed_plus_dm, smoothed_minus_dm, period) ==
    wilder_smoothing(
        [j \in 1 .. Len(smoothed_tr) |->
            DXValue(DirectionalIndex(smoothed_plus_dm[j], smoothed_tr[j]),
                    DirectionalIndex(smoothed_minus_dm[j], smoothed_tr[j]))],
        period)

\* step 3 of ADX::calculate: TR, +DM and -DM smoothed, each with its ?
ADXOfMovements(tr, plus_dm, minus_dm, period) ==
    LET smoothed_tr == wilder_smoothing(tr, period)
        smoothed_plus_dm == wilder_smoothing(plus_dm, period)
        smoothed_minus_dm == wilder_smoothing(minus_dm, period)
    IN  IF ~IsOk(smoothed_tr) THEN smoothed_tr
        ELSE IF ~IsOk(smoothed_plus_dm) THEN smoothed_plus_dm
        ELSE IF ~IsOk(smoothed_minus_dm) THEN smoothed_minus_dm
        ELSE ADXOfSmoothed(smoothed_tr.val, smoothed_plus_dm.val,
                           smoothed_minus_dm.val, period)

\* steps 1-6 of ADX::calculate: the DX series smoothed twice; Ok(adx) or the
\* error of the first kernel that fails (calculate_true_range never does)
ADXSmoothed(high, low, close, period) ==
    LET dm == calculate_directional_movements(high, low)
    IN  IF ~IsOk(dm) THEN dm
        ELSE ADXOfMovements(calculate_true_range(high, low, close).val,
                            dm.val[1], dm.val[2], period)

\* a variant that starts the valid values one index late
ADXStartIndexLate(period) == 2 * (period - 1) + 1

\* the warm-up start index of ADX
ADXStartIndex(period) == 2 * (period - 1)

ADXAssemble(adx, length, period) ==
    LET full_adx == from_elem(length, NaN)
    IN  IF length < period THEN Ok(SingleSeries(full_adx))
        ELSE LET start_index == ADXStartIndex(period)
             IN  IF start_index > Len(adx)
                 THEN Panic(<<"slice begin is out of bounds of the array">>)
                 ELSE LET valid_adx == Slice(adx, start_index, Len(adx))
                          valid_length == Len(valid_adx)
                      IN  IF start_index + valid_length > length
                          THEN CalculationError(
                              <<"Calculated ADX length exceeds input data length.">>)
                          ELSE Ok(SingleSeries(
                              [j \in 1 .. length |->
                                  IF j > start_index /\ j <= start_index + valid_length
                                  THEN valid_adx[j - start_index]
                                  ELSE full_adx[j]]))

ADXParams(raw) ==
    LET dec == DecodeUsize(raw.period, adx_default_period)
    IN  IF ~IsOk(dec) THEN InvalidParameters(dec.val)
        ELSE Ok([period |-> dec.val])

ADX_gate(d, raw) ==
    LET p == ADXParams(raw)
    IN  Gate(p, adx_create_validator, d, to_value_usize(p.val))

\* ADX::calculate after the validation
ADXOfCandles(high, low, close, period) ==
    LET adx == ADXSmoothed(high, low, close, period)
    IN  IF ~IsOk(adx) THEN adx ELSE ADXAssemble(adx.val, Len(high), period)

ADX_calculate(d, raw) ==
    LET g == ADX_gate(d, raw)
    IN  IF ~IsOk(g) THEN g
        ELSE ADXOfCandles(get_by_bar_field(d, "HIGH").arr,
                          get_by_bar_field(d, "LOW").arr,
                          get_by_bar_field(d, "CLOSE").arr, g.val.period)

(* ------------------------------ adxr.rs -------------------------------- *)
adxr_default_period == 14

adxr_create_validator ==
    Validator(<<"HIGH", "LOW", "CLOSE">>,
              <<Required("period"), PositiveInteger("period"),
                CustomWithin("period", "HIGH")>>)

\* a variant that averages with the value period - 1 bars back
ADXRValueNear(adx_values, period, i) ==
    IF i < period THEN NaN
    ELSE IF is_nan(At(adx_values, i)) \/ is_nan(At(adx_values, i - period + 1))
    THEN NaN
    ELSE FDiv(FAdd(At(adx_values, i), At(adx_values, i - period + 1)), FromInt(2))

ADXRValue(adx_values, period, i) ==
    IF i < period THEN NaN
    ELSE IF is_nan(At(adx_values, i)) \/ is_nan(At(adx_values, i - period))
    THEN NaN
    ELSE FDiv(FAdd(At(adx_values, i), At(adx_values, i - period)), FromInt(2))

ADXRParams(raw) ==
    LET dec == DecodeUsize(raw.period, adxr_default_period)
    IN  IF ~IsOk(dec) THEN InvalidParameters(dec.val)
        ELSE Ok([period |-> dec.val])

ADXR_gate(d, raw) ==
    LET p == ADXRParams(raw)
    IN  Gate(p, adxr_create_validator, d, to_value_usize(p.val))

\* the loop of ADXR::calculate over the series ADX returned
ADXROfOutput(output, period) ==
    IF output.shape # "SingleSeries"
    THEN CalculationError(<<"Invalid ADX output.">>)
    ELSE Ok(SingleSeries([j \in 1 .. Len(output.series) |->
                              ADXRValue(output.series, period, j - 1)]))

\* ADXR::calculate after the validation
ADXROfResult(adx_result, period) ==
    IF ~IsOk(adx_result) THEN adx_result
    ELSE ADXROfOutput(adx_result.val, period)

\* a variant that calls ADX without the caller's parameters
ADXR_calculate_defaults_upstream(d, raw) ==
    LET g == ADXR_gate(d, raw)
    IN  IF ~IsOk(g) THEN g
        ELSE ADXROfResult(ADX_calculate(d, NoParams), g.val.period)

ADXR_calculate(d, raw) ==
    LET g == ADXR_gate(d, raw)
    IN  IF ~IsOk(g) THEN g
        ELSE ADXROfResult(ADX_calculate(d, raw), g.val.period)

(* ------------------------------ apo.rs ---------------------------------- *)
default_fast_period == 12
default_slow_period == 26

apo_create_validator ==
    Validator(<<"CLOSE">>,
              <<Required("fast_period"), Required("slow_period"),
                PositiveInteger("fast_period"), PositiveInteger("slow_period"),
                CorrectPeriod("fast_period", "slow_period"),
                CustomWithin("fast_period", "CLOSE"),
                CustomWithin("slow_period", "CLOSE")>>)

RECURSIVE ApoEmaLoop(_, _, _, _)
ApoEmaLoop(ema, data, multiplier, i) ==
    IF i >= Len(data) THEN ema
    ELSE ApoEmaLoop(
            Put(ema, i, FAdd(FMul(FSub(At(data, i), At(ema, i - 1)), multiplier),
                             At(ema, i - 1))),
            data, multiplier, i + 1)

\* a variant that fills the warm-up prefix with zeros instead of NaN
exponential_moving_average_zeros(data, period) ==
    IF period > Len(data)
    THEN Panic(<<"slice end is out of bounds of the array">>)
    ELSE IF period = 0
    THEN Panic(<<"called Option::unwrap() on a None value">>)
    ELSE Ok(ApoEmaLoop(Put(from_elem(Len(data), Zero), period - 1,
                           AMean(Slice(data, 0, period))),
                       data, FDiv(FromInt(2), FAdd(FromInt(period), FromInt(1))),
                       period))

\* apo::exponential_moving_average: no check of its own; Ok(ema) or a panic
exponential_moving_average(data, period) ==
    IF period > Len(data)
    THEN Panic(<<"slice end is out of bounds of the array">>)
    ELSE IF period = 0
    THEN Panic(<<"called Option::unwrap() on a None value">>)
    ELSE LET length == Len(data)
             multiplier == FDiv(FromInt(2), FAdd(FromInt(period), FromInt(1)))
             initial_sma == AMean(Slice(data, 0, period))
             seed == Put(from_elem(length, NaN), period - 1, initial_sma)
         IN  Ok(ApoEmaLoop(seed, data, multiplier, period))

APOParams(raw) ==
    LET decf == DecodeUsize(raw.fast_period, default_fast_period)
        decs == DecodeUsize(raw.slow_period, default_slow_period)
    IN  IF ~IsOk(decf) THEN InvalidParameters(decf.val)
        ELSE IF ~IsOk(decs) THEN InvalidParameters(decs.val)
        ELSE Ok([fast_period |-> decf.val, slow_period |-> decs.val])

APO_gate(d, raw) ==
    LET p == APOParams(raw)
    IN  Gate(p, apo_create_validator, d, to_value_usize(p.val))

\* APO::calculate after the validation: a panic of either average ends it
APOOfAverages(fast_ema, slow_ema) ==
    IF ~IsOk(fast_ema) THEN fast_ema
    ELSE IF ~IsOk(slow_ema) THEN slow_ema
    ELSE Ok(SingleSeries([j \in 1 .. Len(fast_ema.val) |->
                              FSub(fast_ema.val[j], slow_ema.val[j])]))

APO_calculate(d, raw) ==
    LET g == APO_gate(d, raw)
    IN  IF ~IsOk(g) THEN g
        ELSE APOOfAverages(
                exponential_moving_average(get_by_bar_field(d, "CLOSE").arr,
                                           g.val.fast_period),
                exponential_moving_average(get_by_bar_field(d, "CLOSE").arr,
                                           g.val.slow_period))

(* ------------------------------ aroon.rs -------------------------------- *)
aroon_default_period == 14

aroon_create_validator ==
    Validator(<<"HIGH", "LOW">>,
              <<Required("period"), PositiveInteger("period"),
                CustomWithin("period", "HIGH"),
                CustomWithin("period", "LOW")>>)

\* ndarray-stats argmax/argmin: the first index holding the extremum
RECURSIVE ArgMaxFrom(_, _, _)
ArgMaxFrom(w, best, j) ==
    IF j > Len(w) THEN best - 1
    ELSE ArgMaxFrom(w, IF FGt(w[j], w[best]) THEN j ELSE best, j + 1)
argmax(w) == ArgMaxFrom(w, 1, 2)
RECURSIVE ArgMinFrom(_, _, _)
ArgMinFrom(w, best, j) ==
    IF j > Len(w) THEN best - 1
    ELSE ArgMinFrom(w, IF FLt(w[j], w[best]) THEN j ELSE best, j + 1)
argmin(w) == ArgMinFrom(w, 1, 2)

\* a variant that forgets the 1 + of the position
AroonValueNoOffset(extremum_index, period) ==
    FMul(FDiv(FromInt(extremum_index), FromInt(period)), FromInt(100))

AroonValue(extremum_index, period) ==
    FMul(FDiv(FromInt(extremum_index + 1), FromInt(period)), FromInt(100))

AROONParams(raw) ==
    LET dec == DecodeUsize(raw.period, aroon_default_period)
    IN  IF ~IsOk(dec) THEN InvalidParameters(dec.val)
        ELSE Ok([period |-> dec.val])

AROON_gate(d, raw) ==
    LET p == AROONParams(raw)
    IN  Gate(p, aroon_create_validator, d, to_value_usize(p.val))

\* the window of `period` values ending at index i
Window(a, period, i) == Slice(a, i + 1 - period, i + 1)

\* the loop of AROON::calculate; argmax/argmin fail on a NaN in the window
\* and the failure is unwrapped
AroonSeries(high, low, period) ==
    IF \E i \in (period - 1) .. (Len(high) - 1) :
           \E x \in 1 .. period :
               \/ is_nan(Window(high, period, i)[x])
               \/ is_nan(Window(low, period, i)[x])
    THEN Panic(<<"called Result::unwrap() on an Err value">>)
    ELSE Ok(MultiSeries(
            [aroon_up |-> [j \in 1 .. Len(high) |->
                  IF j - 1 < period - 1 THEN NaN
                  ELSE AroonValue(argmax(Window(high, period, j - 1)), period)],
             aroon_down |-> [j \in 1 .. Len(high) |->
                  IF j - 1 < period - 1 THEN NaN
                  ELSE AroonValue(argmin(Window(low, period, j - 1)), period)]]))

AROON_calculate(d, raw) ==
    LET g == AROON_gate(d, raw)
    IN  IF ~IsOk(g) THEN g
        ELSE AroonSeries(get_by_bar_field(d, "HIGH").arr,
                         get_by_bar_field(d, "LOW").arr, g.val.period)

(* ------------------------------ atr.rs ---------------------------------- *)
atr_default_period == 14

atr_create_validator ==
    Validator(<<"HIGH", "LOW", "CLOSE">>,
              <<Required("period"), PositiveInteger("period"),
                CustomWithin("period", "HIGH")>>)

RECURSIVE AtrLoop(_, _, _, _)
AtrLoop(atr, tr, period, i) ==
    IF i >= Len(tr) THEN atr
    ELSE AtrLoop(
            Put(atr, i,
                FDiv(FAdd(FMul(At(atr, i - 1), FSub(FromInt(period), FromInt(1))),
                          At(tr, i)),
                     FromInt(period))),
            tr, period, i + 1)

ATRParams(raw) ==
    LET dec == DecodeUsize(raw.period, atr_default_period)
    IN  IF ~IsOk(dec) THEN InvalidParameters(dec.val)
        ELSE Ok([period |-> dec.val])

ATR_gate(d, raw) ==
    LET p == ATRParams(raw)
    IN  Gate(p, atr_create_validator, d, to_value_usize(p.val))

\* the seed and the loop of ATR::calculate over the true range series
AtrSeries(tr, period) ==
    Ok(SingleSeries(
        AtrLoop(Put(from_elem(Len(tr), NaN), period - 1,
                    AMean(Slice(tr, 0, period))),
                tr, period, period)))

\* a variant that seeds the average before it validates the parameters: the
\* seed index period - 1 underflows on a zero period
ATR_calculate_kernel_first(d, raw) ==
    LET g == ATR_gate(d, raw)
    IN  IF IsOk(ATRParams(raw)) /\ IsOk(validate_data(atr_create_validator, d))
           /\ ATRParams(raw).val.period = 0
        THEN Panic(<<"attempt to subtract with overflow">>)
        ELSE IF ~IsOk(g) THEN g
        ELSE AtrSeries([j \in 1 .. Len(get_by_bar_field(d, "HIGH").arr) |->
                           TrueRangeAt(get_by_bar_field(d, "HIGH").arr,
                                       get_by_bar_field(d, "LOW").arr,
                                       get_by_bar_field(d, "CLOSE").arr, j - 1)],
                       g.val.period)

ATR_calculate(d, raw) ==
    LET g == ATR_gate(d, raw)
    IN  IF ~IsOk(g) THEN g
        ELSE AtrSeries([j \in 1 .. Len(get_by_bar_field(d, "HIGH").arr) |->
                           TrueRangeAt(get_by_bar_field(d, "HIGH").arr,
                                       get_by_bar_field(d, "LOW").arr,
                                       get_by_bar_field(d, "CLOSE").arr, j - 1)],
                       g.val.period)

(* ------------------------------ avgprice.rs ----------------------------- *)
avgprice_create_validator ==
    Validator(<<"CLOSE", "LOW", "HIGH", "OPEN">>, <<>>)

\* a variant that leaves the open out of the sum
AvgPriceSeriesNoOpen(open, high, low, close) ==
    Ok(SingleSeries(
        [j \in 1 .. Len(open) |->
            FDiv(FAdd(FAdd(high[j], low[j]), close[j]), FromInt(4))]))

AvgPriceSeries(open, high, low, close) ==
    Ok(SingleSeries(
        [j \in 1 .. Len(open) |->
            FDiv(FAdd(FAdd(FAdd(open[j], high[j]), low[j]), close[j]),
                 FromInt(4))]))

AVGPRICE_calculate(d, raw) ==
    LET v == validate_data(avgprice_create_validator, d)
    IN  IF ~IsOk(v) THEN v
        ELSE AvgPriceSeries(get_by_bar_field(d, "OPEN").arr,
                            get_by_bar_field(d, "HIGH").arr,
                            get_by_bar_field(d, "LOW").arr,
                            get_by_bar_field(d, "CLOSE").arr)

(* ------------------------------ bbands.rs ------------------------------- *)
bbands_default_period == 20
default_std_dev_multiplier == FromInt(2)

\* a variant that bounds the period by the length of the close series
bbands_create_validator_bounded ==
    Validator(<<"CLOSE">>,
              <<Required("period"), Required("std_dev_multiplier"),
                PositiveInteger("period"), PositiveNumber("std_dev_multiplier"),
                CustomWithin("period", "CLOSE")>>)

bbands_create_validator ==
    Validator(<<"CLOSE">>,
              <<Required("period"), Required("std_dev_multiplier"),
                PositiveInteger("period"), PositiveNumber("std_dev_multiplier")>>)

\* the sum of the window [start, i] of a series, from its prefix sums
WindowSum(cumsum, start, i) ==
    IF start = 0 THEN At(cumsum, i) ELSE FSub(At(cumsum, i), At(cumsum, start - 1))

BBandsMean(cumsum, period, i) ==
    FDiv(WindowSum(cumsum, i + 1 - period, i), FromInt(period))

\* (sum_sq - 2 * mean * sum + mean^2 * period) / period
VarianceOf(sum, sum_sq, mean, period) ==
    FDiv(FAdd(FSub(sum_sq, FMul(FMul(FromInt(2), mean), sum)),
              FMul(FMul(mean, mean), FromInt(period))),
         FromInt(period))

BBandsVariance(cumsum, cumsum_sq, period, i) ==
    VarianceOf(WindowSum(cumsum, i + 1 - period, i),
               WindowSum(cumsum_sq, i + 1 - period, i),
               BBandsMean(cumsum, period, i), period)

BBandsParams(raw) ==
    LET decp == DecodeUsize(raw.period, bbands_default_period)
        decm == DecodeF64(raw.std_dev_multiplier, default_std_dev_multiplier)
    IN  IF ~IsOk(decp) THEN InvalidParameters(decp.val)
        ELSE IF ~IsOk(decm) THEN InvalidParameters(decm.val)
        ELSE Ok([period |-> decp.val, std_dev_multiplier |-> decm.val])

BBANDS_gate(d, raw) ==
    LET p == BBandsParams(raw)
    IN  Gate(p, bbands_create_validator, d,
             [period |-> JUInt(p.val.period),
              std_dev_multiplier |-> JFloat(p.val.std_dev_multiplier)])

\* the three bands from the moving average and the scaled deviation
BBandsOutput(ma, scaled) ==
    Ok(MultiSeries(
        [middle_band |-> ma,
         upper_band |-> [j \in 1 .. Len(ma) |-> FAdd(ma[j], scaled[j])],
         lower_band |-> [j \in 1 .. Len(ma) |-> FSub(ma[j], scaled[j])]]))

\* the loop of BBANDS::calculate over the prefix sums
BBandsOfSums(cumsum, cumsum_sq, period, std_dev_multiplier) ==
    BBandsOutput(
        [j \in 1 .. Len(cumsum) |->
            IF j - 1 < period - 1 THEN NaN
            ELSE BBandsMean(cumsum, period, j - 1)],
        [j \in 1 .. Len(cumsum) |->
            IF j - 1 < period - 1 THEN NaN
            ELSE FMul(FSqrt(BBandsVariance(cumsum, cumsum_sq, period, j - 1)),
                      std_dev_multiplier)])

BBandsSeries(close, period, std_dev_multiplier) ==
    BBandsOfSums(cumulative_sum(close),
                 cumulative_sum([j \in 1 .. Len(close) |->
                                    FMul(close[j], close[j])]),
                 period, std_dev_multiplier)

BBANDS_calculate(d, raw) ==
    LET g == BBANDS_gate(d, raw)
    IN  IF ~IsOk(g) THEN g
        ELSE BBandsSeries(get_by_bar_field(d, "CLOSE").arr, g.val.period,
                          g.val.std_dev_multiplier)

(* ------------------------------ chaikin_ad_line.rs ---------------------- *)
RECURSIVE AdLineLoop(_, _)
AdLineLoop(ad_line, i) ==
    IF i >= Len(ad_line) THEN ad_line
    ELSE AdLineLoop(Put(ad_line, i, FAdd(At(ad_line, i), At(ad_line, i - 1))), i + 1)

AD_calculate(d, raw) ==
    IF ~d.high.some THEN InvalidParameters(<<"Missing High data">>)
    ELSE IF ~d.low.some THEN InvalidParameters(<<"Missing Low data">>)
    ELSE IF ~d.close.some THEN InvalidParameters(<<"Missing Close data">>)
    ELSE IF ~d.volume.some THEN InvalidParameters(<<"Missing Volume data">>)
    ELSE LET high == d.high.arr
             low == d.low.arr
             close == d.close.arr
             volume == d.volume.arr
             length == Len(high)
         IN  IF Len(low) # length \/ Len(close) # length \/ Len(volume) # length
             THEN InvalidParameters(<<"Input data lengths do not match">>)
             ELSE LET mfv == [j \in 1 .. length |->
                          MoneyFlowVolume(high[j], low[j], close[j], volume[j])]
                  IN  Ok(SingleSeries(AdLineLoop(mfv, 1)))

(* ------------------------------ chaikin_ad_oscillator.rs ---------------- *)
default_short_period == 3
default_long_period == 10

adosc_create_validator ==
    Validator(<<"HIGH", "LOW", "CLOSE", "VOLUME">>,
              <<Required("short_period"), Required("long_period"),
                PositiveInteger("short_period"), PositiveInteger("long_period"),
                CorrectPeriod("short_period", "long_period"),
                CustomLess("short_period", "HIGH"),
                CustomLess("long_period", "HIGH")>>)

\* a variant that starts one index late
ADOSCStartIndexLate(long_period) == long_period

\* where the oscillator's output starts in the input
ADOSCStartIndex(long_period) == long_period - 1

ChaikinOscillatorParams(raw) ==
    LET decl == DecodeUsize(raw.long_period, default_long_period)
        decs == DecodeUsize(raw.short_period, default_short_period)
    IN  IF ~IsOk(decl) THEN InvalidParameters(decl.val)
        ELSE IF ~IsOk(decs) THEN InvalidParameters(decs.val)
        ELSE Ok([short_period |-> decs.val, long_period |-> decl.val])

ADOSC_gate(d, raw) ==
    LET p == ChaikinOscillatorParams(raw)
    IN  Gate(p, adosc_create_validator, d, to_value_usize(p.val))

\* the difference of the two averages, sliced from the start index
ADOSCOutput(short_ema, long_ema, start_index) ==
    Ok(SingleSeries([j \in 1 .. (Len(short_ema) - start_index) |->
                        FSub(Slice(short_ema, start_index, Len(short_ema))[j],
                             Slice(long_ema, start_index, Len(long_ema))[j])]))

\* the two averages of the line, each with its ?
ADOSCOfLine(adl, short_period, long_period) ==
    LET short_ema == calculate_ema(adl, short_period)
        long_ema == calculate_ema(adl, long_period)
    IN  IF ~IsOk(short_ema) THEN short_ema
        ELSE IF ~IsOk(long_ema) THEN long_ema
        ELSE ADOSCOutput(short_ema.val, long_ema.val,
                         ADOSCStartIndex(long_period))

\* calculate_adl never fails
ADOSC_calculate(d, raw) ==
    LET g == ADOSC_gate(d, raw)
    IN  IF ~IsOk(g) THEN g
        ELSE ADOSCOfLine(calculate_adl(get_by_bar_field(d, "HIGH").arr,
                                       get_by_bar_field(d, "LOW").arr,
                                       get_by_bar_field(d, "CLOSE").arr,
                                       get_by_bar_field(d, "VOLUME").arr).val,
                         g.val.short_period, g.val.long_period)

(* ------------------------------ the caller ------------------------------ *)
VARIABLES
    data,      \* the candle series handed to calculate (InputData)
    called,    \* which indicator's calculate ran, "none" before the call
    params,    \* the raw parameter map of the call
    result     \* what calculate returned

vars == <<data, called, params, result>>

\* the bars the candle series are built from: open, high, low, close, volume
BarTypes ==
    { [o |-> 2, h |-> 4, l |-> 1, c |-> 3, v |-> 2],
      [o |-> 5, h |-> 5, l |-> 5, c |-> 5, v |-> 3] }

RECURSIVE SeqsUpTo(_, _)
SeqsUpTo(S, n) ==
    IF n = 0 THEN {<<>>}
    ELSE LET shorter == SeqsUpTo(S, n - 1)
         IN  shorter \cup {Append(s, x) : s \in {t \in shorter : Len(t) = n - 1}, x \in S}

CandlesOf(bars) ==
    [open   |-> Some([j \in 1 .. Len(bars) |-> FromInt(bars[j].o)]),
     high   |-> Some([j \in 1 .. Len(bars) |-> FromInt(bars[j].h)]),
     low    |-> Some([j \in 1 .. Len(bars) |-> FromInt(bars[j].l)]),
     close  |-> Some([j \in 1 .. Len(bars) |-> FromInt(bars[j].c)]),
     volume |-> Some([j \in 1 .. Len(bars) |-> FromInt(bars[j].v)])]

Candles == {CandlesOf(bars) : bars \in SeqsUpTo(BarTypes, MaxLen)}

\* candle series that break the candle contract: one or two fields are
\* missing (None) or one bar shorter than the others
Defective(d, defect) ==
    [f \in DOMAIN d |->
        CASE defect[f] = "none" -> None
          [] defect[f] = "short" /\ Len(d[f].arr) > 0 ->
                Some(Slice(d[f].arr, 0, Len(d[f].arr) - 1))
          [] OTHER -> d[f]]
DefectiveCandles ==
    LET fields == {"open", "high", "low", "close", "volume"}
        whole == [f \in fields |-> "whole"]
    IN  {Defective(CandlesOf([j \in 1 .. n |-> CHOOSE b \in BarTypes : b.h # b.l]),
                   [whole EXCEPT ![f] = x, ![g] = y]) :
            n \in 0 .. MaxLen, f \in fields, g \in fields,
            x \in {"none", "short"}, y \in {"whole", "none", "short"}}

\* short candle series with a third bar, whose high lies above and whose low
\* lies below those of its neighbours
WideCandles ==
    {CandlesOf(bars) :
        bars \in SeqsUpTo(BarTypes \cup {[o |-> 3, h |-> 6, l |-> 0, c |-> 3, v |-> 1]},
                          3)}

\* the raw values a caller puts under a period key: nothing, integers from
\* -1 up, the key's default written out, a string, a fraction
RawPeriods(dflt) ==
    {Absent, JStr, JFloat(FDiv(FromInt(3), FromInt(2))), JInt(dflt)}
        \cup {JInt(n) : n \in -1 .. MaxPeriod}
RawMultipliers ==
    {Absent, JStr, JInt(-1), JInt(0), JInt(1), JFloat(default_std_dev_multiplier)}


Init ==
    /\ data \in Candles \cup DefectiveCandles \cup WideCandles
    /\ called = "none"
    /\ params = NoParams
    /\ result = [kind |-> "None", val |-> <<>>]

Call(name, raw, res) ==
    /\ called = "none"
    /\ called' = name
    /\ params' = raw
    /\ result' = res
    /\ UNCHANGED data

CallADX ==
    \E p \in RawPeriods(adx_default_period) :
        LET raw == [NoParams EXCEPT !["period"] = p]
        IN  Call("ADX", raw, ADX_calculate(data, raw))

CallADXR ==
    \E p \in RawPeriods(adxr_default_period) :
        LET raw == [NoParams EXCEPT !["period"] = p]
        IN  Call("ADXR", raw, ADXR_calculate(data, raw))

CallAPO ==
    \E f \in RawPeriods(default_fast_period),
       s \in RawPeriods(default_slow_period) :
        LET raw == [NoParams EXCEPT !["fast_period"] = f, !["slow_period"] = s]
        IN  Call("APO", raw, APO_calculate(data, raw))

CallAROON ==
    \E p \in RawPeriods(aroon_default_period) :
        LET raw == [NoParams EXCEPT !["period"] = p]
        IN  Call("AROON", raw, AROON_calculate(data, raw))

CallATR ==
    \E p \in RawPeriods(atr_default_period) :
        LET raw == [NoParams EXCEPT !["period"] = p]
        IN  Call("ATR", raw, ATR_calculate(data, raw))

CallAVGPRICE ==
    \E p \in RawPeriods(0) :
        LET raw == [NoParams EXCEPT !["period"] = p]
        IN  Call("AVGPRICE", raw, AVGPRICE_calculate(data, raw))

CallBBANDS ==
    \E p \in RawPeriods(bbands_default_period), m \in RawMultipliers :
        LET raw == [NoParams EXCEPT !["period"] = p, !["std_dev_multiplier"] = m]
        IN  Call("BBANDS", raw, BBANDS_calculate(data, raw))

CallAD ==
    Call("AD", NoParams, AD_calculate(data, NoParams))

CallADOSC ==
    \E s \in RawPeriods(default_short_period),
       l \in RawPeriods(default_long_period) :
        LET raw == [NoParams EXCEPT !["short_period"] = s, !["long_period"] = l]
        IN  Call("ADOSC", raw, ADOSC_calculate(data, raw))

\* the CorrectPeriod rule on its own, on a parameter value of any shape
CallCorrectPeriod ==
    \E l \in RawPeriods(0), r \in RawPeriods(0) :
        LET raw == [NoParams EXCEPT !["fast_period"] = l, !["slow_period"] = r]
        IN  Call("validate_correct_period", raw,
                 validate_correct_period(
                     [k \in {n \in {"fast_period", "slow_period"} :
                                raw[n] # Absent} |-> raw[k]],
                     "fast_period", "slow_period"))

\* the LessThanData rule on its own, on a parameter value of any shape, with
\* the length of the close series as its bound
CallLessThanData ==
    /\ data.close.some
    /\ \E p \in RawPeriods(0) :
        LET raw == [NoParams EXCEPT !["period"] = p]
        IN  Call("validate_less_than_data", raw,
                 validate_less_than_data(
                     [k \in {n \in {"period"} : raw[n] # Absent} |-> raw[k]],
                     "period", Len(data.close.arr)))

\* utils::wilder_smoothing on its own, over the close series
CallWilderSmoothing ==
    /\ data.close.some
    /\ \E period \in 0 .. MaxPeriod :
        Call("wilder_smoothing", [NoParams EXCEPT !["period"] = JInt(period)],
             wilder_smoothing(data.close.arr, period))

\* utils::calculate_ema on its own, over the close series
CallCalculateEma ==
    /\ data.close.some
    /\ \E period \in 0 .. MaxPeriod :
        Call("calculate_ema", [NoParams EXCEPT !["period"] = JInt(period)],
             calculate_ema(data.close.arr, period))

\* utils::calculate_directional_movements on its own, over the high and the
\* low series
CallDirectionalMovements ==
    /\ data.high.some /\ data.low.some
    /\ Len(data.high.arr) = Len(data.low.arr)
    /\ Call("calculate_directional_movements", NoParams,
            calculate_directional_movements(data.high.arr, data.low.arr))

Next ==
    \/ CallDirectionalMovements
    \/ CallCalculateEma
    \/ CallWilderSmoothing
    \/ CallLessThanData
    \/ CallCorrectPeriod
    \/ CallADX
    \/ CallADXR
    \/ CallAPO
    \/ CallAROON
    \/ CallATR
    \/ CallAVGPRICE
    \/ CallBBANDS
    \/ CallAD
    \/ CallADOSC

Spec == Init /\ [][Next]_vars

(* ------------------------------ properties ------------------------------ *)
FLe(a, b) == FLt(a, b) \/ FEq(a, b)
FGe(a, b) == FLe(b, a)

\* the fields the indicator called requires, in their declared order (AD
\* declares no validator: the fields its calculate reads, in that order)
RequiredFields ==
    CASE called = "ADX" -> adx_create_validator.required_fields
      [] called = "ADXR" -> adxr_create_validator.required_fields
      [] called = "APO" -> apo_create_validator.required_fields
      [] called = "AROON" -> aroon_create_validator.required_fields
      [] called = "ATR" -> atr_create_validator.required_fields
      [] called = "AVGPRICE" -> avgprice_create_validator.required_fields
      [] called = "BBANDS" -> bbands_create_validator.required_fields
      [] called = "AD" -> <<"HIGH", "LOW", "CLOSE", "VOLUME">>
      [] called = "ADOSC" -> adosc_create_validator.required_fields
      [] OTHER -> <<>>
IsRequired(f) == \E j \in 1 .. Len(RequiredFields) : RequiredFields[j] = f

\* the length of the first required field, the common length L of a candle
\* series that keeps the candle contract, and its indices
Length ==
    IF RequiredFields = <<>> THEN 0
    ELSE Len(get_by_bar_field(data, RequiredFields[1]).arr)
Indices == 0 .. (Length - 1)
AllFields == {"OPEN", "HIGH", "LOW", "CLOSE", "VOLUME"}
FieldsOfCommonLength ==
    \A f \in AllFields :
        IsRequired(f) =>
            /\ get_by_bar_field(data, f).some
            /\ Len(get_by_bar_field(data, f).arr) = Length
Open(i) == At(data.open.arr, i)
High(i) == At(data.high.arr, i)
Low(i) == At(data.low.arr, i)
Close(i) == At(data.close.arr, i)
Volume(i) == At(data.volume.arr, i)

\* the period a key of the raw parameters decodes to
PeriodOf(key, dflt) == IF params[key] = Absent THEN dflt ELSE params[key][2]

\* the single series of the result, and one series of its map
Single(i) == At(result.val.series, i)
Multi(name, i) == At(result.val.series[name], i)
SeriesOf(out) ==
    IF out.shape = "SingleSeries" THEN {out.series}
    ELSE {out.series[k] : k \in DOMAIN out.series}

\* the call's parameters pass the validation of the indicator called
PassesValidation ==
    /\ FieldsOfCommonLength
    /\ CASE called = "ADX" -> IsOk(ADX_gate(data, params))
         [] called = "ADXR" -> IsOk(ADXR_gate(data, params))
         [] called = "APO" -> IsOk(APO_gate(data, params))
         [] called = "AROON" -> IsOk(AROON_gate(data, params))
         [] called = "ATR" -> IsOk(ATR_gate(data, params))
         [] called = "AVGPRICE" ->
                IsOk(validate_data(avgprice_create_validator, data))
         [] called = "BBANDS" -> IsOk(BBANDS_gate(data, params))
         [] called = "AD" -> TRUE
         [] called = "ADOSC" -> IsOk(ADOSC_gate(data, params))
         [] OTHER -> FALSE

\* C1: for every indicator, every candle series whose fields have the common
\* length L and every parameter set that passes validation, calculate returns
\* an Output in which every series has length exactly L.
EveryOutputHasInputLength ==
    PassesValidation =>
        /\ IsOk(result)
        /\ \A s \in SeriesOf(result.val) : Len(s) = Length

\* C2: when ADX.calculate succeeds with period p, output[i] is NaN for every
\* i < 2*(p-1) and is not NaN for every i with 2*(p-1) <= i < L.
ADXWarmUpHorizon ==
    called = "ADX" /\ IsOk(result) =>
        \A i \in Indices :
            is_nan(Single(i)) <=>
                i < 2 * (PeriodOf("period", adx_default_period) - 1)

\* an ADX call that succeeded with a NaN prefix and a valid value after it
ADXWarmUpSeen ==
    /\ called = "ADX" /\ IsOk(result)
    /\ PeriodOf("period", adx_default_period) >= 2
    /\ 2 * (PeriodOf("period", adx_default_period) - 1) < Length
    /\ is_nan(Single(0))
    /\ ~is_nan(Single(Length - 1))

\* C3: when ADXR.calculate succeeds with period p, output[i] is NaN for every
\* i < 2*(p-1) + p and is not NaN for every i with 2*(p-1) + p <= i < L.
ADXRWarmUpHorizon ==
    called = "ADXR" /\ IsOk(result) =>
        \A i \in Indices :
            is_nan(Single(i)) <=>
                i < 2 * (PeriodOf("period", adxr_default_period) - 1)
                        + PeriodOf("period", adxr_default_period)

\* an ADXR call that succeeded with a valid value after a prefix longer than
\* the one of ADX
ADXRWarmUpSeen ==
    /\ called = "ADXR" /\ IsOk(result)
    /\ PeriodOf("period", adxr_default_period) >= 2
    /\ 2 * (PeriodOf("period", adxr_default_period) - 1)
            + PeriodOf("period", adxr_default_period) < Length
    /\ is_nan(Single(Length - 2))
    /\ ~is_nan(Single(Length - 1))

\* the exponential moving average as the specification defines it: NaN before
\* period - 1, the mean of the first period values at period - 1, then
\* ema[i] = (x[i] - ema[i-1]) * 2/(period+1) + ema[i-1]
RECURSIVE EmaAt(_, _, _)
EmaAt(x, period, i) ==
    IF i < period - 1 THEN NaN
    ELSE IF i = period - 1 THEN AMean(Slice(x, 0, period))
    ELSE LET prev == EmaAt(x, period, i - 1)
         IN  FAdd(FMul(FSub(At(x, i), prev),
                       FDiv(FromInt(2), FromInt(period + 1))),
                  prev)

\* C4: APO returns an output only for a fast period f < slow period s <= L,
\* and then output[i] is NaN for every i < s-1, and for every i >= s-1 it is
\* not NaN and equals EMA(close, f)[i] - EMA(close, s)[i].
APOIsEmaDifference ==
    called = "APO" /\ IsOk(result) =>
        /\ PeriodOf("fast_period", default_fast_period)
              < PeriodOf("slow_period", default_slow_period)
        /\ PeriodOf("slow_period", default_slow_period) <= Length
        /\ \A i \in Indices :
              IF i < PeriodOf("slow_period", default_slow_period) - 1
              THEN is_nan(Single(i))
              ELSE /\ ~is_nan(Single(i))
                   /\ Single(i) =
                        FSub(EmaAt(data.close.arr,
                                   PeriodOf("fast_period", default_fast_period), i),
                             EmaAt(data.close.arr,
                                   PeriodOf("slow_period", default_slow_period), i))

\* an APO call with 1 < f < s < L whose last value is a non-zero difference
APODifferenceSeen ==
    /\ called = "APO" /\ IsOk(result)
    /\ PeriodOf("fast_period", default_fast_period) > 1
    /\ PeriodOf("slow_period", default_slow_period) < Length
    /\ is_nan(Single(0))
    /\ is_finite(Single(Length - 1))
    /\ Single(Length - 1) # Zero

\* the value AROON gives the position k of an extremum in a window of p bars
AroonOf(k, p) == FMul(FDiv(FromInt(1 + k), FromInt(p)), FromInt(100))

\* C5: the output of AROON.calculate for a validated period p <= L: both series are NaN at every index
\* i < p-1, and at every index i >= p-1 each equals (1 + k)/p * 100 where k in
\* 0..p-1 is the position, inside the window [i-p+1, i], of the maximum of
\* high (aroon_up) respectively the minimum of low (aroon_down); every valid
\* value lies in [0, 100].
AroonIsExtremumPosition ==
    called = "AROON" /\ IsOk(result) =>
        /\ result.val.shape = "MultiSeries"
        /\ DOMAIN result.val.series = {"aroon_up", "aroon_down"}
        /\ LET p == PeriodOf("period", aroon_default_period)
           IN  \A i \in Indices :
                  IF i < p - 1
                  THEN is_nan(Multi("aroon_up", i)) /\ is_nan(Multi("aroon_down", i))
                  ELSE /\ \E k \in 0 .. (p - 1) :
                            /\ \A x \in 0 .. (p - 1) :
                                  FGe(High(i - p + 1 + k), High(i - p + 1 + x))
                            /\ Multi("aroon_up", i) = AroonOf(k, p)
                       /\ \E k \in 0 .. (p - 1) :
                            /\ \A x \in 0 .. (p - 1) :
                                  FLe(Low(i - p + 1 + k), Low(i - p + 1 + x))
                            /\ Multi("aroon_down", i) = AroonOf(k, p)
                       /\ FGe(Multi("aroon_up", i), Zero)
                       /\ FLe(Multi("aroon_up", i), FromInt(100))
                       /\ FGe(Multi("aroon_down", i), Zero)
                       /\ FLe(Multi("aroon_down", i), FromInt(100))

\* an AROON call whose last window has its maximum and its minimum before
\* the last bar
AroonPositionSeen ==
    /\ called = "AROON" /\ IsOk(result)
    /\ PeriodOf("period", aroon_default_period) >= 2
    /\ PeriodOf("period", aroon_default_period) < Length
    /\ is_nan(Multi("aroon_up", 0))
    /\ FLt(Multi("aroon_up", Length - 1), FromInt(100))
    /\ FLt(Multi("aroon_down", Length - 1), FromInt(100))

\* C6: the output of Bollinger Bands for period p and a positive multiplier:
\* the three series are NaN at every index < p-1, and at every index i >= p-1
\* upper_band[i] >= middle_band[i] >= lower_band[i].
BandsAreOrdered ==
    /\ called = "BBANDS" /\ IsOk(result)
    /\ params["std_dev_multiplier"] \in {Absent, JInt(1)}
    =>
        \A i \in Indices :
            IF i < PeriodOf("period", bbands_default_period) - 1
            THEN /\ is_nan(Multi("middle_band", i))
                 /\ is_nan(Multi("upper_band", i))
                 /\ is_nan(Multi("lower_band", i))
            ELSE /\ FGe(Multi("upper_band", i), Multi("middle_band", i))
                 /\ FGe(Multi("middle_band", i), Multi("lower_band", i))

\* the true range as the specification defines it
TrueRange(i) ==
    IF i = 0 THEN FSub(High(0), Low(0))
    ELSE FMax(FMax(FSub(High(i), Low(i)), FAbs(FSub(High(i), Close(i - 1)))),
              FAbs(FSub(Low(i), Close(i - 1))))
RECURSIVE TrueRangeSum(_)
TrueRangeSum(n) ==
    IF n = 0 THEN Zero ELSE FAdd(TrueRangeSum(n - 1), TrueRange(n - 1))

\* C7: the output of ATR.calculate for a validated period p <= L: output[i] is NaN for i < p-1;
\* output[p-1] is the arithmetic mean of the first p true-range values; and
\* for every i >= p, output[i] = (output[i-1]*(p-1) + tr[i]) / p.
ATRIsWilderAverage ==
    called = "ATR" /\ IsOk(result) =>
        /\ LET p == PeriodOf("period", atr_default_period)
           IN  \A i \in Indices :
                  IF i < p - 1 THEN is_nan(Single(i))
                  ELSE IF i = p - 1
                  THEN Single(i) = FDiv(TrueRangeSum(p), FromInt(p))
                  ELSE Single(i) =
                          FDiv(FAdd(FMul(Single(i - 1), FromInt(p - 1)),
                                    TrueRange(i)),
                               FromInt(p))

\* an ATR call with a NaN prefix, the seed and a step of the recurrence over
\* a bar whose true range is the gap to the previous close
ATRRecurrenceSeen ==
    /\ called = "ATR" /\ IsOk(result)
    /\ PeriodOf("period", atr_default_period) >= 2
    /\ PeriodOf("period", atr_default_period) < Length
    /\ is_nan(Single(0))
    /\ is_finite(Single(Length - 1))
    /\ FGt(TrueRange(Length - 1), FSub(High(Length - 1), Low(Length - 1)))

\* C8: AVGPRICE, when open, high, low and close are present with common length
\* L, succeeds whatever the parameter value is, and output[i] =
\* (open[i] + high[i] + low[i] + close[i]) / 4 for every 0 <= i < L, none NaN.
AvgPriceIsMeanOfFour ==
    called = "AVGPRICE" /\ FieldsOfCommonLength =>
        /\ IsOk(result)
        /\ Len(result.val.series) = Length
        /\ \A i \in Indices :
              /\ ~is_nan(Single(i))
              /\ Single(i) =
                    FDiv(FAdd(FAdd(FAdd(Open(i), High(i)), Low(i)), Close(i)),
                         FromInt(4))

\* an AVGPRICE call given a period that no other indicator accepts
AvgPriceSeen ==
    /\ called = "AVGPRICE" /\ IsOk(result)
    /\ params["period"] = JInt(0)
    /\ Length >= 2
    /\ Single(0) # Single(1)

\* the money flow volume as the specification defines it
Flow(i) ==
    IF FEq(High(i), Low(i)) THEN Zero
    ELSE FMul(FDiv(FSub(FSub(Close(i), Low(i)), FSub(High(i), Close(i))),
                   FSub(High(i), Low(i))),
              Volume(i))
IsAccumulationOfFlow(adl) ==
    /\ Len(adl) = Length
    /\ \A i \in Indices :
          IF i = 0 THEN At(adl, 0) = Flow(0)
          ELSE /\ At(adl, i) = FAdd(At(adl, i - 1), Flow(i))
               /\ FEq(High(i), Low(i)) => At(adl, i) = At(adl, i - 1)

\* C9: the Accumulation/Distribution Line, of ChaikinADLine.calculate and of
\* the calculate_adl kernel: ADL[0] = flow[0] and ADL[i] = ADL[i-1] + flow[i],
\* with flow[i] = 0 whenever high[i] = low[i], so that ADL[i] = ADL[i-1] there.
ADLAccumulatesFlow ==
    called = "AD" /\ FieldsOfCommonLength =>
        /\ IsOk(result)
        /\ IsAccumulationOfFlow(result.val.series)
        /\ IsOk(calculate_adl(data.high.arr, data.low.arr, data.close.arr,
                              data.volume.arr))
        /\ IsAccumulationOfFlow(
              calculate_adl(data.high.arr, data.low.arr, data.close.arr,
                            data.volume.arr).val)

\* an AD call over a series whose last bar has high = low, after bars that
\* moved the line away from zero
ADLZeroRangeSeen ==
    /\ called = "AD" /\ IsOk(result)
    /\ Length >= 3
    /\ FEq(High(Length - 1), Low(Length - 1))
    /\ ~FEq(High(Length - 2), Low(Length - 2))
    /\ Single(Length - 1) # Zero

\* C10: the output of the Chaikin A/D Oscillator for validated short period
\* p1 < long period p2 <= L: the series has length L - (p2 - 1) and its element k is
\* EMA(ADL, p1)[k + p2 - 1] - EMA(ADL, p2)[k + p2 - 1], EMA being the
\* calculate_ema kernel and ADL the calculate_adl kernel.
ADOSCIsSlicedEmaDifference ==
    called = "ADOSC" /\ IsOk(result) =>
        /\ result.val.shape = "SingleSeries"
        /\ LET p1 == PeriodOf("short_period", default_short_period)
               p2 == PeriodOf("long_period", default_long_period)
               adl == calculate_adl(data.high.arr, data.low.arr,
                                    data.close.arr, data.volume.arr).val
           IN  /\ Len(result.val.series) = Length - (p2 - 1)
               /\ \A k \in 0 .. (Length - p2) :
                     Single(k) = FSub(At(calculate_ema(adl, p1).val, k + p2 - 1),
                                      At(calculate_ema(adl, p2).val, k + p2 - 1))

\* an ADOSC call whose series is shorter than the input and ends in a
\* non-zero difference
ADOSCSliceSeen ==
    /\ called = "ADOSC" /\ IsOk(result)
    /\ PeriodOf("long_period", default_long_period) >= 3
    /\ Len(result.val.series) >= 2
    /\ Len(result.val.series) < Length
    /\ At(result.val.series, Len(result.val.series) - 1) # Zero

(* ------------------------------ validation ------------------------------ *)
\* the parameter rules the indicator called declares, in their order
ParamRules ==
    CASE called = "ADX" -> adx_create_validator.param_rules
      [] called = "ADXR" -> adxr_create_validator.param_rules
      [] called = "APO" -> apo_create_validator.param_rules
      [] called = "AROON" -> aroon_create_validator.param_rules
      [] called = "ATR" -> atr_create_validator.param_rules
      [] called = "BBANDS" -> bbands_create_validator.param_rules
      [] called = "ADOSC" -> adosc_create_validator.param_rules
      [] OTHER -> <<>>
RuleIndices == 1 .. Len(ParamRules)

\* the raw parameters of the call decoded into the indicator's schema
Decoded ==
    CASE called = "ADX" -> ADXParams(params)
      [] called = "ADXR" -> ADXRParams(params)
      [] called = "APO" -> APOParams(params)
      [] called = "AROON" -> AROONParams(params)
      [] called = "ATR" -> ATRParams(params)
      [] called = "BBANDS" -> BBandsParams(params)
      [] called = "ADOSC" -> ChaikinOscillatorParams(params)
      [] OTHER -> Ok(<<>>)

MustBePositiveInteger(name) ==
    InvalidParameters(<<"Parameter '", name, "' must be a positive integer">>)

\* C11 as stated: on a valid candle series, a parameter with a positive-integer
\* rule that is 0 makes calculate return InvalidParameters "Parameter '<name>'
\* must be a positive integer", whatever the other parameters are.
ZeroIsRejectedByName ==
    FieldsOfCommonLength =>
        \A j \in RuleIndices :
            (/\ ParamRules[j].rule = "PositiveInteger"
             /\ params[ParamRules[j].a] = JInt(0))
                => result = MustBePositiveInteger(ParamRules[j].a)

\* C11: on a valid candle series and raw parameters that decode, a parameter
\* with a positive-integer rule that is 0, every parameter whose
\* positive-integer rule is declared earlier being positive, makes calculate
\* return InvalidParameters "Parameter '<name>' must be a positive integer".
ZeroIsRejectedInDeclaredOrder ==
    (FieldsOfCommonLength /\ IsOk(Decoded)) =>
        \A j \in RuleIndices :
            (/\ ParamRules[j].rule = "PositiveInteger"
             /\ params[ParamRules[j].a] = JInt(0)
             /\ \A k \in 1 .. (j - 1) :
                    ParamRules[k].rule = "PositiveInteger"
                        => Decoded.val[ParamRules[k].a] > 0)
                => result = MustBePositiveInteger(ParamRules[j].a)

\* the second period of a pair is 0 and is the one the error names
ZeroSecondPeriodSeen ==
    /\ called = "ADOSC" /\ FieldsOfCommonLength
    /\ params["long_period"] = JInt(0) /\ params["short_period"] = JInt(2)
    /\ result = MustBePositiveInteger("long_period")

\* the decoded parameters serialised again, as the validator reads them
Serialised ==
    IF called = "BBANDS"
    THEN [period |-> JUInt(Decoded.val.period),
          std_dev_multiplier |-> JFloat(Decoded.val.std_dev_multiplier)]
    ELSE to_value_usize(Decoded.val)
EarlierRulesPass(j) ==
    \A k \in 1 .. (j - 1) : IsOk(ApplyRule(ParamRules[k], Serialised, data))
IsLengthBound(rule) == rule.rule \in {"CustomWithin", "CustomLess"}
BoundedLength(rule) == Len(get_by_bar_field(data, rule.b).arr)

WrongParameterLength(name, v, L) ==
    InvalidParameters(<<"Wrong parameter length. '", name, "' > data length. (">>
                      \o IntStr(v) \o <<" > ">> \o IntStr(L) \o <<")">>)

\* C12 as stated: on a valid candle series, a positive value v of a parameter
\* bounded by the length L of a field, with v > L, makes calculate return
\* InvalidParameters "Wrong parameter length. '<name>' > data length.
\* (<v> > <L>)", whatever the other parameters are.
PeriodAboveLengthIsRejectedByName ==
    FieldsOfCommonLength =>
        \A j \in RuleIndices :
            (/\ IsLengthBound(ParamRules[j])
             /\ params[ParamRules[j].a][1] = "int"
             /\ params[ParamRules[j].a][2] > 0
             /\ params[ParamRules[j].a][2] > BoundedLength(ParamRules[j]))
                => result = WrongParameterLength(ParamRules[j].a,
                                                 params[ParamRules[j].a][2],
                                                 BoundedLength(ParamRules[j]))

\* C12: on a valid candle series and raw parameters that decode, a positive
\* value v of a parameter bounded by the length L of a field, with v > L
\* (L = 0 included) and every rule declared before the bound passing, makes
\* calculate return InvalidParameters "Wrong parameter length. '<name>' >
\* data length. (<v> > <L>)".
PeriodAboveLengthIsRejectedInDeclaredOrder ==
    (FieldsOfCommonLength /\ IsOk(Decoded)) =>
        \A j \in RuleIndices :
            (/\ IsLengthBound(ParamRules[j])
             /\ Decoded.val[ParamRules[j].a] > 0
             /\ Decoded.val[ParamRules[j].a] > BoundedLength(ParamRules[j])
             /\ EarlierRulesPass(j))
                => result = WrongParameterLength(ParamRules[j].a,
                                                 Decoded.val[ParamRules[j].a],
                                                 BoundedLength(ParamRules[j]))

\* a period above the length of an empty candle series is rejected
PeriodAboveEmptySeriesSeen ==
    /\ called = "ATR" /\ FieldsOfCommonLength /\ Length = 0
    /\ params["period"] = JInt(2)
    /\ result = WrongParameterLength("period", 2, 0)

\* the candle series of the call against the candle contract
RequiredIndices == 1 .. Len(RequiredFields)
IsMissing(j) == ~get_by_bar_field(data, RequiredFields[j]).some
AllRequiredPresent == \A j \in RequiredIndices : ~IsMissing(j)
RequiredLengthsDiffer ==
    \E j, k \in RequiredIndices :
        Len(get_by_bar_field(data, RequiredFields[j]).arr)
            # Len(get_by_bar_field(data, RequiredFields[k]).arr)
FirstMissing ==
    RequiredFields[CHOOSE j \in RequiredIndices :
                        IsMissing(j) /\ \A k \in 1 .. (j - 1) : ~IsMissing(k)]

\* C13: when the raw parameters decode and all required fields of the
\* indicator called are present but two of them differ in length, calculate
\* returns InvalidInput "Input data series of the bars must have the same
\* length.", one message however many fields differ.
UnequalLengthsAreInvalidInput ==
    (/\ called # "none" /\ IsOk(Decoded)
     /\ AllRequiredPresent /\ RequiredLengthsDiffer)
        => result = InvalidInput(
               <<"Input data series of the bars must have the same length.">>)

\* C14: when the raw parameters decode and a required field of the indicator
\* called is missing, calculate returns InvalidInput "Field '<NAME>' is
\* required but missing." for the first missing field in declared order, also
\* when the fields present differ in length.
MissingFieldIsInvalidInput ==
    (/\ called # "none" /\ IsOk(Decoded) /\ ~AllRequiredPresent)
        => result = InvalidInput(<<"Field '", FirstMissing,
                                   "' is required but missing.">>)

\* the candle series of the call violates the candle contract
CandleContractViolated == ~AllRequiredPresent \/ RequiredLengthsDiffer

\* C15: when the candle series violates the candle contract, the error
\* returned is the candle-contract error (InvalidInput), whatever the raw
\* parameters are: zero, negative, fractional, wrongly typed or wrongly ordered.
CandleErrorWhateverTheParameters ==
    (called # "none" /\ CandleContractViolated) => result.kind = "InvalidInput"

\* the outcome of one declared rule on the parameters of the call
RuleOutcome(j) == ApplyRule(ParamRules[j], Serialised, data)
RuleFails(j) == ~IsOk(RuleOutcome(j))

\* C16: when the candle series is valid and the parameters decode, the rules
\* run in declared order and stop at the first failure: if any rule is
\* violated, calculate returns the error of the earliest violated rule.
EarliestViolatedRuleIsReported ==
    (FieldsOfCommonLength /\ IsOk(Decoded)) =>
        \A j \in RuleIndices :
            (RuleFails(j) /\ \A k \in 1 .. (j - 1) : ~RuleFails(k))
                => result = RuleOutcome(j)

\* three rules are violated at once and the first of them is reported
SeveralRulesViolatedSeen ==
    /\ called = "ADOSC" /\ FieldsOfCommonLength /\ IsOk(Decoded)
    /\ Cardinality({j \in RuleIndices : RuleFails(j)}) >= 3
    /\ result = MustBePositiveInteger("short_period")

MustBeLessThan(left, right) ==
    InvalidParameters(<<"Parameter '", left, "' must be less than '", right, "'">>)
IsInteger(v) == v[1] = "int"

\* C17: CorrectPeriod(left, right).  In a call on a valid candle series with
\* both periods positive integers, calculate returns InvalidParameters
\* "Parameter '<left>' must be less than '<right>'" exactly when left >= right,
\* equality included.  On its own the rule passes iff left < right, and when
\* an operand is not an integer its message names that operand, the left one
\* being checked first.
CorrectPeriodIsStrict ==
    /\ (FieldsOfCommonLength /\ IsOk(Decoded)) =>
            \A j \in RuleIndices :
                (/\ ParamRules[j].rule = "CorrectPeriod"
                 /\ Decoded.val[ParamRules[j].a] > 0
                 /\ Decoded.val[ParamRules[j].b] > 0)
                    => (result = MustBeLessThan(ParamRules[j].a, ParamRules[j].b)
                            <=> Decoded.val[ParamRules[j].a]
                                    >= Decoded.val[ParamRules[j].b])
    /\ called = "validate_correct_period" =>
            result =
                IF ~IsInteger(params["fast_period"])
                THEN MustBePositiveInteger("fast_period")
                ELSE IF ~IsInteger(params["slow_period"])
                THEN MustBePositiveInteger("slow_period")
                ELSE IF params["fast_period"][2] < params["slow_period"][2]
                THEN Ok(TRUE)
                ELSE MustBeLessThan("fast_period", "slow_period")

\* equal periods are rejected by a call
EqualPeriodsRejectedSeen ==
    /\ called = "ADOSC" /\ FieldsOfCommonLength
    /\ params["short_period"] = JInt(2) /\ params["long_period"] = JInt(2)
    /\ result = MustBeLessThan("short_period", "long_period")

(* ------------------------------ defaults -------------------------------- *)
\* calculate of the indicator named
Calculate(name, d, raw) ==
    CASE name = "ADX" -> ADX_calculate(d, raw)
      [] name = "ADXR" -> ADXR_calculate(d, raw)
      [] name = "APO" -> APO_calculate(d, raw)
      [] name = "AROON" -> AROON_calculate(d, raw)
      [] name = "ATR" -> ATR_calculate(d, raw)
      [] name = "AVGPRICE" -> AVGPRICE_calculate(d, raw)
      [] name = "BBANDS" -> BBANDS_calculate(d, raw)
      [] name = "AD" -> AD_calculate(d, raw)
      [] name = "ADOSC" -> ADOSC_calculate(d, raw)
Indicators ==
    {"ADX", "ADXR", "APO", "AROON", "ATR", "AVGPRICE", "BBANDS", "AD", "ADOSC"}

\* the documented default of a key of the indicator called, written out as
\* the caller would supply it; Absent where none is documented
DocumentedDefault(key) ==
    CASE key = "period" /\ called \in {"ADX", "ADXR", "AROON", "ATR"} -> JInt(14)
      [] key = "fast_period" /\ called = "APO" -> JInt(12)
      [] key = "slow_period" /\ called = "APO" -> JInt(26)
      [] key = "std_dev_multiplier" /\ called = "BBANDS" -> JFloat(FromInt(2))
      [] key = "short_period" /\ called = "ADOSC" -> JInt(3)
      [] key = "long_period" /\ called = "ADOSC" -> JInt(10)
      [] OTHER -> Absent
DefaultsWrittenOut ==
    [k \in ParamKeys |->
        IF params[k] = Absent THEN DocumentedDefault(k) ELSE params[k]]

\* C18: a key absent from the raw parameters takes its documented default:
\* the outcome of calculate, result or error with the values its message
\* prints, is the outcome of the call with those defaults supplied explicitly.
AbsentKeysTakeDefaults ==
    called \in Indicators => result = Calculate(called, data, DefaultsWrittenOut)

\* both periods absent on two bars: the message prints the default 3
DefaultPrintedInErrorSeen ==
    /\ called = "ADOSC" /\ FieldsOfCommonLength /\ Length = 2
    /\ params["short_period"] = Absent /\ params["long_period"] = Absent
    /\ result = WrongParameterLength("short_period", 3, 2)

(* ------------------------------ decoding -------------------------------- *)
\* the keys of the schema of the indicator called, and the decoding of one
SchemaKeys ==
    CASE called \in {"ADX", "ADXR", "AROON", "ATR"} -> {"period"}
      [] called = "APO" -> {"fast_period", "slow_period"}
      [] called = "BBANDS" -> {"period", "std_dev_multiplier"}
      [] called = "ADOSC" -> {"short_period", "long_period"}
      [] OTHER -> {}
DecodingOf(key) ==
    IF key = "std_dev_multiplier" THEN DecodeF64(params[key], Zero)
    ELSE DecodeUsize(params[key], 0)
Undecodable == {k \in SchemaKeys : ~IsOk(DecodingOf(k))}

\* candle series of every kind: valid with bars, empty, without any field
SomeCandles ==
    {CandlesOf(<<>>), CandlesOf(<<CHOOSE b \in BarTypes : TRUE>>),
     Defective(CandlesOf(<<>>), [f \in DOMAIN data |-> "none"])}

\* C19: when a raw parameter does not decode into the schema of the indicator
\* called, calculate returns InvalidParameters with the decoder's diagnostic
\* of an undecodable key, and the same on every candle series: neither the
\* validator nor a kernel has a say.
DecodeFailureEndsTheCall ==
    Undecodable # {} =>
        /\ \E k \in Undecodable : result = InvalidParameters(DecodingOf(k).val)
        /\ \A d \in SomeCandles : Calculate(called, d, params) = result

\* a fractional period on a candle series that itself breaks the contract
DecodeFailureOnBrokenCandlesSeen ==
    /\ called = "ATR" /\ CandleContractViolated
    /\ params["period"][1] = "float"
    /\ result = InvalidParameters(<<"invalid type: ", "float", ", expected usize">>)

(* ------------------------------ window overrun -------------------------- *)
\* C20: when a candle series and a period p pass the validator of ADX or ADXR
\* and the start index 2*(p-1) lies beyond the input length L
\* (p <= L < 2*(p-1)), calculate returns a CalculationError: it neither
\* aborts on an out-of-range slice nor returns a truncated series.
ADXOverrunIsCalculationError ==
    (/\ called \in {"ADX", "ADXR"} /\ PassesValidation
     /\ Decoded.val.period <= Length
     /\ Length < 2 * (Decoded.val.period - 1))
        => result.kind = "CalculationError"

(* ------------------------------ all or nothing -------------------------- *)
\* what the decoding of the parameters and the validator of the indicator
\* called return, before any kernel of its calculate runs
GateOf ==
    CASE called = "ADX" -> ADX_gate(data, params)
      [] called = "ADXR" -> ADXR_gate(data, params)
      [] called = "APO" -> APO_gate(data, params)
      [] called = "AROON" -> AROON_gate(data, params)
      [] called = "ATR" -> ATR_gate(data, params)
      [] called = "AVGPRICE" -> validate_data(avgprice_create_validator, data)
      [] called = "BBANDS" -> BBANDS_gate(data, params)
      [] called = "ADOSC" -> ADOSC_gate(data, params)
      [] OTHER -> Ok(TRUE)
IsOutput(v) == DOMAIN v = {"shape", "series"}

\* the outcome of a call is either an Output or an error that carries a
\* message and no series; InvalidInput and InvalidParameters are what the
\* decoding and the validator returned, so that no kernel ran before them
AllOrNothingOutcome ==
    called \in Indicators =>
        /\ IsOk(result) => IsOutput(result.val)
        /\ ~IsOk(result) => DOMAIN result.val = 1 .. Len(result.val)
        /\ ~IsOk(GateOf) => result = GateOf
        /\ called # "AD" /\ result.kind \in {"InvalidInput", "InvalidParameters"}
                => result = GateOf

\* C21: on every path of every calculate the candle series is left unchanged,
\* an error is returned without any output series, partial or complete, and a
\* validation failure is returned before any numeric kernel runs.
CalculateIsAllOrNothing == []AllOrNothingOutcome /\ [][data' = data]_vars

\* a call on a whole candle series that failed validation, and left the series
\* as it was
FailedValidationSeen ==
    /\ called = "ATR" /\ FieldsOfCommonLength /\ Length > 0
    /\ params["period"] = JInt(0)
    /\ result.kind = "InvalidParameters"
    /\ data \in Candles

(* ------------------------------ LessThanData ---------------------------- *)
\* C22: the rule LessThanData(name, bound) passes iff the parameter's integer
\* value is below the bound, and when an integer value is not, the
\* InvalidParameters message is exactly "Wrong parameter length. '<name>' >
\* data length. (<value> > <bound>)".
LessThanDataReportsValueAndBound ==
    called = "validate_less_than_data" =>
        /\ IsOk(result) <=>
                /\ params["period"] # Absent /\ IsInteger(params["period"])
                /\ params["period"][2] < Len(data.close.arr)
        /\ ~IsOk(result) /\ params["period"] # Absent /\ IsInteger(params["period"])
                => result = WrongParameterLength("period", params["period"][2],
                                                 Len(data.close.arr))

(* ------------------------------ kernels --------------------------------- *)
\* the series a kernel returned, and the period it was called with
Smoothed(i) == At(result.val, i)
KernelPeriod == params["period"][2]

\* C23: wilder_smoothing(data, period) fails with an error when len(data) <
\* period; otherwise it returns a series of the same length with result[i] = 0
\* for i < period-1, result[period-1] the mean of data[0..period], and
\* result[i] = result[i-1] + (data[i] - result[i-1]) / period for i >= period.
WilderSmoothingIsSeededRecurrence ==
    called = "wilder_smoothing" =>
        IF Len(data.close.arr) < KernelPeriod
        THEN result.kind \in {"InvalidInput", "InvalidParameters", "CalculationError"}
        ELSE /\ IsOk(result)
             /\ Len(result.val) = Len(data.close.arr)
             /\ \A i \in 0 .. (Len(data.close.arr) - 1) :
                    Smoothed(i) =
                        IF i < KernelPeriod - 1 THEN Zero
                        ELSE IF i = KernelPeriod - 1
                        THEN AMean(Slice(data.close.arr, 0, KernelPeriod))
                        ELSE FAdd(Smoothed(i - 1),
                                  FDiv(FSub(Close(i), Smoothed(i - 1)),
                                       FromInt(KernelPeriod)))

\* C24: calculate_ema(data, period) fails iff period = 0 or period >
\* len(data); otherwise ema[period-1] is the mean of data[0..period] and
\* ema[i] = (data[i] - ema[i-1]) * 2/(period+1) + ema[i-1] for i >= period;
\* utils::calculate_ema and apo::exponential_moving_average yield the same
\* value at every index >= period-1 and differ only in the filler before it
\* (0 versus NaN).
EmaImplementationsAgree ==
    called = "calculate_ema" =>
        /\ ~IsOk(result) <=>
                KernelPeriod = 0 \/ KernelPeriod > Len(data.close.arr)
        /\ IsOk(result) =>
            LET other == exponential_moving_average(data.close.arr, KernelPeriod)
            IN  /\ IsOk(other)
                /\ \A i \in 0 .. (Len(data.close.arr) - 1) :
                    /\ i < KernelPeriod - 1 =>
                            Smoothed(i) = Zero /\ is_nan(At(other.val, i))
                    /\ i = KernelPeriod - 1 =>
                            Smoothed(i) = AMean(Slice(data.close.arr, 0, KernelPeriod))
                    /\ i >= KernelPeriod =>
                            Smoothed(i) =
                                FAdd(FMul(FSub(Close(i), Smoothed(i - 1)),
                                          FDiv(FromInt(2),
                                               FAdd(FromInt(KernelPeriod),
                                                    FromInt(1)))),
                                     Smoothed(i - 1))
                    /\ i >= KernelPeriod - 1 => Smoothed(i) = At(other.val, i)

\* the moves of the high and of the low from bar i-1 to bar i
UpMove(i) == FSub(High(i), High(i - 1))
DownMove(i) == FSub(Low(i - 1), Low(i))
PlusDM(i) == At(result.val[1], i)
MinusDM(i) == At(result.val[2], i)

ADXRIsAverageOfADX ==
    /\ called = "ADXR" /\ IsOk(ADXR_gate(data, params)) =>
        LET upstream == ADX_calculate(data, params)
            p == PeriodOf("period", adxr_default_period)
        IN  IF ~IsOk(upstream) THEN result = upstream
            ELSE /\ IsOk(result)
                 /\ result.val.shape = "SingleSeries"
                 /\ Len(result.val.series) = Len(upstream.val.series)
                 /\ \A i \in 0 .. (Len(upstream.val.series) - 1) :
                        Single(i) =
                            IF /\ i >= p
                               /\ ~is_nan(At(upstream.val.series, i))
                               /\ ~is_nan(At(upstream.val.series, i - p))
                            THEN FDiv(FAdd(At(upstream.val.series, i),
                                           At(upstream.val.series, i - p)),
                                      FromInt(2))
                            ELSE NaN
    /\ \A p \in 1 .. MaxPeriod :
            ADXROfResult(Ok(MultiSeries([adx |-> <<>>])), p).kind = "CalculationError"

\* an ADXR call whose last value averages two values of ADX
ADXRAverageSeen ==
    /\ called = "ADXR" /\ IsOk(result)
    /\ PeriodOf("period", adxr_default_period) = 2
    /\ Length = 5
    /\ ~is_nan(Single(4))
    /\ is_nan(Single(3))

(* ------------------------------ the range of ADX ------------------------ *)
\* C27: for every finite candle series with high[i] >= low[i] at every bar
\* and every period on which ADX.calculate succeeds, every output value that
\* is not NaN lies between 0 and 100.
ADXLiesWithinZeroAndHundred ==
    called = "ADX" /\ IsOk(result) =>
        \A i \in Indices :
            ~is_nan(Single(i)) =>
                FGe(Single(i), Zero) /\ FLe(Single(i), FromInt(100))

\* an ADX call on bars with high >= low that returned a value strictly
\* between the two bounds after a bar on which -DM exceeded +DM
ADXInsideRangeSeen ==
    /\ called = "ADX" /\ IsOk(result) /\ Length >= 3
    /\ \A i \in Indices : FGe(High(i), Low(i))
    /\ \E i \in Indices :
        /\ i >= 1 /\ FLt(High(i), High(i - 1))
        /\ FGt(Single(Length - 1), Zero)
        /\ FLt(Single(Length - 1), FromInt(100))

(* ------------------------------ Required -------------------------------- *)
DoesNotExist(name) ==
    InvalidParameters(<<"Parameter '", name, "' does not exist">>)

\* C28: on the calculate path of every indicator a Required(name) rule never
\* fails: the validator reads the decoded schema serialised again, which holds
\* every declared key, so "Parameter '<name>' does not exist" is never
\* returned, whatever raw parameters the caller supplies.
RequiredNeverFails ==
    called \in Indicators =>
        /\ \A name \in ParamKeys : result # DoesNotExist(name)
        /\ IsOk(Decoded) =>
                \A j \in RuleIndices :
                    ParamRules[j].rule = "Required" => IsOk(RuleOutcome(j))

\* a call without the key a Required rule names: the rule passed and the call
\* failed on something else
RequiredKeyAbsentSeen ==
    /\ called = "ADX" /\ FieldsOfCommonLength
    /\ params["period"] = Absent
    /\ ParamRules[1] = Required("period")
    /\ IsOk(RuleOutcome(1))
    /\ ~IsOk(result) /\ result # DoesNotExist("period")

(* ------------------------------ fields not required --------------------- *)
\* the candle series of the call without the fields the indicator called does
\* not require
RequiredFieldsOnly ==
    [open   |-> IF IsRequired("OPEN") THEN data.open ELSE None,
     high   |-> IF IsRequired("HIGH") THEN data.high ELSE None,
     low    |-> IF IsRequired("LOW") THEN data.low ELSE None,
     close  |-> IF IsRequired("CLOSE") THEN data.close ELSE None,
     volume |-> IF IsRequired("VOLUME") THEN data.volume ELSE None]

\* C29: the candle validator compares the lengths of the required fields
\* only: a field that is present but not required, whatever its length, never
\* causes an error and does not change the result of calculate.
FieldsNotRequiredAreIgnored ==
    called \in Indicators => result = Calculate(called, RequiredFieldsOnly, params)

\* an ADX call that succeeded on candles whose open is a bar shorter than the
\* required fields
ShorterOpenIgnoredSeen ==
    /\ called = "ADX" /\ IsOk(result) /\ Length >= 2
    /\ data.open.some /\ Len(data.open.arr) = Length - 1
    /\ ~is_nan(Single(Length - 1))

(* ------------------------------ BBANDS beyond the series ---------------- *)
\* C30: BBANDS declares no rule that bounds the period by the data length:
\* for a close series of length L and a positive period p > L (the multiplier
\* passing its rules), calculate returns Ok with middle_band, upper_band and
\* lower_band each of length L and NaN at every index.
BBandsBeyondLengthIsAllNaN ==
    (/\ called = "BBANDS" /\ data.close.some /\ IsOk(Decoded)
     /\ Decoded.val.period > Len(data.close.arr)) =>
        /\ \A j \in RuleIndices : ~IsLengthBound(ParamRules[j])
        /\ (\A j \in RuleIndices : ParamRules[j].a # "period" => IsOk(RuleOutcome(j)))
                => /\ IsOk(result)
                   /\ result.val.shape = "MultiSeries"
                   /\ DOMAIN result.val.series
                            = {"middle_band", "upper_band", "lower_band"}
                   /\ \A band \in {"middle_band", "upper_band", "lower_band"} :
                        /\ Len(result.val.series[band]) = Len(data.close.arr)
                        /\ \A i \in Indices : is_nan(Multi(band, i))

\* a call with a period one above the length of a series of two bars
BBandsPeriodAboveLengthSeen ==
    /\ called = "BBANDS" /\ IsOk(result)
    /\ Length = 2 /\ params["period"] = JInt(3)
    /\ is_nan(Multi("middle_band", 1))

====
